---- MODULE Spec2Model ----
(***************************************************************************)
(* A model of the useWebSocket hook (src/src/hooks/useWebSocket.ts): the   *)
(* connection lifecycle manager, its three timers, the subscription set    *)
(* and the topic cache, driven by the browser's socket and timer events    *)
(* and by the calls of the component that uses the hook.                   *)
(*                                                                         *)
(* The browser runs every callback to completion, one at a time, so each   *)
(* handler is one action.  Handlers are written as operators on a record   *)
(* m of the hook's refs and state, composed as the code composes them.     *)
(***************************************************************************)
EXTENDS Integers, Sequences, FiniteSets, Bags, TLC

\* Bounds of the model.
MaxSuperseded == 1       \* sockets connect() replaced that have not closed yet
MaxOrphanTimers == 1     \* pending timers that no ref holds any more
MaxAttempt == 2          \* cap on the reconnect counter under Spec
MaxBackoffAttempt == 7   \* cap on the reconnect counter under SpecBackoff

\* Defaults of the hook's options.
heartbeatIntervalMs == 30000
pongTimeoutMs == 5000
maxReconnectDelayMs == 30000

Topics == {"a", "b"}
Payloads == {"p1", "p2"}

\* dataByTopic is an object literal: a key it does not own is looked up in
\* Object.prototype.  One inherited member stands for them all.
ObjectPrototype == [constructor |-> "Object"]

\* The property names the cache is read and written with
Keys == Topics \cup DOMAIN ObjectPrototype

VARIABLES
    wsRef,                \* wsRef.current: the socket installed, or NoSocket (null)
    superseded,           \* sockets that connect() replaced before they closed
    status,               \* the React state `status`
    dataByTopic,          \* the React state `dataByTopic`
    subscriptionsRef,     \* the Set of topics, in insertion order
    heartbeatTimerRef,    \* the timer each ref holds, or NullRef
    pongTimerRef,
    reconnectTimerRef,
    orphanTimers,         \* pending timers whose id no ref holds any more
    reconnectAttemptRef,
    closedManuallyRef,
    mounted,              \* the mount effect has run
    urlThrows,            \* the WebSocket constructor throws for the first render's url
    sent,                 \* frames handed to ws.send() by the last handler
    lastEvent,            \* the handler that ran last
    callSubs,             \* set-add / set-remove applied in call order
    failedAttempts,       \* failed connection attempts since the last open
    afterForced,          \* a pong deadline's close was handled, no open or effect run since
    opened,               \* an open event has been delivered
    lastData              \* per key, the payload of the last data frame received

vars == <<wsRef, superseded, status, dataByTopic, subscriptionsRef, heartbeatTimerRef,
          pongTimerRef, reconnectTimerRef, orphanTimers, reconnectAttemptRef,
          closedManuallyRef, mounted, urlThrows, sent, lastEvent, callSubs, failedAttempts,
          afterForced, opened, lastData>>

----------------------------------------------------------------------------
\* Helpers

MinOf(a, b) == IF a <= b THEN a ELSE b

Range(q) == {q[i] : i \in 1..Len(q)}

Without(q, x) == SelectSeq(q, LAMBDA y : y # x)

BagAdd(B, x) == B (+) SetToBag({x})

BagRemove(B, x) == B (-) SetToBag({x})

\* The hook's refs and state, as one record; ok turns FALSE when a handler
\* would exceed a bound of the model.
Cur ==
    [wsRef |-> wsRef, superseded |-> superseded, status |-> status,
     dataByTopic |-> dataByTopic, subscriptionsRef |-> subscriptionsRef,
     heartbeatTimerRef |-> heartbeatTimerRef, pongTimerRef |-> pongTimerRef,
     reconnectTimerRef |-> reconnectTimerRef, orphanTimers |-> orphanTimers,
     reconnectAttemptRef |-> reconnectAttemptRef,
     closedManuallyRef |-> closedManuallyRef,
     sent |-> <<>>, ok |-> TRUE]

----------------------------------------------------------------------------
\* The browser: timers and sockets

\* A ref holds null, the id of a pending timer, or the id of a timer that
\* has fired or was cleared (a stale id: clearing it does nothing).
NullRef == [state |-> "null", ms |-> 0]

\* window.setTimeout / window.setInterval
newTimer(ms) == [state |-> "pending", ms |-> ms]

\* window.clearTimeout / window.clearInterval of the id a ref holds
clearTimer(ref) == IF ref.state = "pending" THEN [ref EXCEPT !.state = "stale"] ELSE ref

\* The timer a ref held when the ref is overwritten stays pending.
orphaned(m, ref, kind) ==
    IF ref.state = "pending"
    THEN [m EXCEPT !.orphanTimers = BagAdd(@, [kind |-> kind]),
                   !.ok = @ /\ BagCardinality(m.orphanTimers) < MaxOrphanTimers]
    ELSE m

\* A socket instance: its readyState, and whether a pong deadline closed it.
NoSocket == [rs |-> "NONE", forced |-> FALSE]

newWebSocket == [rs |-> "CONNECTING", forced |-> FALSE]

Alive(w) == w.rs \in {"CONNECTING", "OPEN", "CLOSING"}

\* WebSocket.close(): starts the closing handshake of a socket that is
\* connecting or open, and does nothing on one that is closing or closed.
wsClose(w, byDeadline) ==
    IF w.rs \in {"CONNECTING", "OPEN"}
    THEN [rs |-> "CLOSING", forced |-> byDeadline]
    ELSE w

----------------------------------------------------------------------------
\* The hook

clearTimers(m) ==
    LET a == IF m.heartbeatTimerRef.state # "null"
             THEN [m EXCEPT !.heartbeatTimerRef = NullRef]
             ELSE m
        b == IF a.pongTimerRef.state # "null"
             THEN [a EXCEPT !.pongTimerRef = NullRef]
             ELSE a
    IN  IF b.reconnectTimerRef.state # "null"
        THEN [b EXCEPT !.reconnectTimerRef = NullRef]
        ELSE b

\* The value sendRaw returns
sendRawOk(m) == m.wsRef.rs = "OPEN"

\* sendRaw without the readyState test
sendRawAnyState(m, msg) ==
    IF m.wsRef.rs # "NONE"
    THEN [m EXCEPT !.sent = Append(@, msg)]
    ELSE m

sendRaw(m, msg) ==
    IF sendRawOk(m)
    THEN [m EXCEPT !.sent = Append(@, msg)]
    ELSE m

subscribe(m, topic) ==
    sendRaw([m EXCEPT !.subscriptionsRef =
                 IF topic \in Range(@) THEN @ ELSE Append(@, topic)],
            [action |-> "subscribe", topic |-> topic])

\* unsubscribe with the commented-out removal of the cache entry switched on
unsubscribeClearing(m, topic) ==
    sendRaw([m EXCEPT !.subscriptionsRef = Without(@, topic),
                      !.dataByTopic[topic] = "absent"],
            [action |-> "unsubscribe", topic |-> topic])

\* unsubscribe that forgets the topic only when the frame could be sent
unsubscribeWhenOpen(m, topic) ==
    IF sendRawOk(m)
    THEN sendRaw([m EXCEPT !.subscriptionsRef = Without(@, topic)],
                 [action |-> "unsubscribe", topic |-> topic])
    ELSE m

unsubscribe(m, topic) ==
    sendRaw([m EXCEPT !.subscriptionsRef = Without(@, topic)],
            [action |-> "unsubscribe", topic |-> topic])

\* The interval callback without the clearTimeout of the pending deadline
heartbeatTickNoCancel(m) ==
    IF ~sendRawOk(m) THEN m
    ELSE LET p == sendRaw(m, [action |-> "ping", topic |-> ""])
         IN  [orphaned(p, p.pongTimerRef, "pong")
                 EXCEPT !.pongTimerRef = newTimer(pongTimeoutMs)]

\* The callback of the interval startHeartbeat sets
heartbeatTick(m) ==
    IF ~sendRawOk(m) THEN m
    ELSE LET p == sendRaw(m, [action |-> "ping", topic |-> ""])
             c == IF p.pongTimerRef.state # "null"
                  THEN [p EXCEPT !.pongTimerRef = clearTimer(@)]
                  ELSE p
         IN  [orphaned(c, c.pongTimerRef, "pong")
                 EXCEPT !.pongTimerRef = newTimer(pongTimeoutMs)]

\* The callback of the pong deadline
pongDeadline(m) == [m EXCEPT !.wsRef = wsClose(@, TRUE)]

startHeartbeat(m) ==
    [orphaned(m, m.heartbeatTimerRef, "heartbeat")
        EXCEPT !.heartbeatTimerRef = newTimer(heartbeatIntervalMs)]

stopHeartbeat(m) ==
    LET a == IF m.heartbeatTimerRef.state # "null"
             THEN [m EXCEPT !.heartbeatTimerRef = NullRef]
             ELSE m
    IN  IF a.pongTimerRef.state # "null"
        THEN [a EXCEPT !.pongTimerRef = NullRef]
        ELSE a

RECURSIVE resubscribeFrom(_, _)
resubscribeFrom(m, q) ==
    IF q = <<>> THEN m
    ELSE resubscribeFrom(sendRaw(m, [action |-> "subscribe", topic |-> Head(q)]), Tail(q))

\* resubscribeAll that replays the topic subscribed first only
resubscribeFirst(m) ==
    IF m.subscriptionsRef = <<>> THEN m
    ELSE resubscribeFrom(m, <<Head(m.subscriptionsRef)>>)

resubscribeAll(m) == resubscribeFrom(m, m.subscriptionsRef)

\* The delay without the ceiling
backoffDelayNoCeiling(attempt) == 1000 * 2 ^ (attempt - 1)

backoffDelay(attempt) == MinOf(1000 * 2 ^ (attempt - 1), maxReconnectDelayMs)

\* scheduleReconnect that gives up after the first retry
scheduleReconnectOnce(m) ==
    IF m.closedManuallyRef \/ m.reconnectAttemptRef >= 1 THEN m
    ELSE LET attempt == m.reconnectAttemptRef + 1
         IN  [orphaned(m, m.reconnectTimerRef, "reconnect")
                 EXCEPT !.reconnectAttemptRef = attempt,
                        !.reconnectTimerRef = newTimer(backoffDelay(attempt))]

scheduleReconnect(m) ==
    IF m.closedManuallyRef THEN m
    ELSE LET attempt == m.reconnectAttemptRef + 1
         IN  [orphaned(m, m.reconnectTimerRef, "reconnect")
                 EXCEPT !.reconnectAttemptRef = attempt,
                        !.reconnectTimerRef = newTimer(backoffDelay(attempt))]

\* connect(); throws: the WebSocket constructor throws
connect(m, throws) ==
    LET c == [clearTimers(m) EXCEPT !.status = "connecting"]
    IN  IF throws THEN scheduleReconnect([c EXCEPT !.status = "error"])
        ELSE IF Alive(c.wsRef)
             THEN [c EXCEPT !.wsRef = newWebSocket,
                            !.superseded = BagAdd(@, c.wsRef),
                            !.ok = @ /\ BagCardinality(c.superseded) < MaxSuperseded]
             ELSE [c EXCEPT !.wsRef = newWebSocket]

onopen(m) ==
    resubscribeAll(startHeartbeat([m EXCEPT !.status = "open",
                                            !.reconnectAttemptRef = 0]))

\* A frame is text that JSON.parse turns into an object, or fails on.
Frames ==
    [malformed : {FALSE}, type : {"pong", "none"}, topic : Keys \cup {"", "none"},
     payload : Payloads \cup {"undefined"}]
    \cup {[malformed |-> TRUE, type |-> "none", topic |-> "none", payload |-> "undefined"]}

\* The frames the lifecycle tells apart: one it cannot parse, a pong with and
\* without a topic, a frame without a topic, and the data frames of one topic
CoreFrames ==
    {f \in Frames : \/ f.malformed
                    \/ f.type = "pong" /\ f.topic = "none" /\ f.payload = "undefined"
                    \/ f.topic = "a" /\ f.payload = "p1"
                    \/ f.type = "none" /\ f.topic = "a" /\ f.payload = "p2"
                    \/ f.type = "none" /\ f.topic \in {"", "none"} /\ f.payload = "p1"}

\* onmessage whose pong branch does not return
onmessagePongRouted(m, f) ==
    IF f.malformed THEN m
    ELSE LET a == IF f.type = "pong" /\ m.pongTimerRef.state # "null"
                  THEN [m EXCEPT !.pongTimerRef = NullRef]
                  ELSE m
         IN  IF f.topic \notin {"", "none"}
             THEN [a EXCEPT !.dataByTopic[f.topic] = f.payload]
             ELSE a

onmessage(m, f) ==
    IF f.malformed THEN m
    ELSE IF f.type = "pong"
         THEN IF m.pongTimerRef.state # "null"
              THEN [m EXCEPT !.pongTimerRef = NullRef]
              ELSE m
         ELSE IF f.topic \notin {"", "none"}
              THEN [m EXCEPT !.dataByTopic[f.topic] = f.payload]
              ELSE m

\* onerror that schedules the reconnect itself
onerrorRetry(m) == scheduleReconnect([m EXCEPT !.status = "error"])

onerror(m) == [m EXCEPT !.status = "error"]

\* onclose that leaves the heartbeat running
oncloseHeartbeatKept(m) ==
    LET a == [m EXCEPT !.status = "closed"]
    IN  IF ~a.closedManuallyRef THEN scheduleReconnect(a) ELSE a

onclose(m) ==
    LET a == stopHeartbeat([m EXCEPT !.status = "closed"])
    IN  IF ~a.closedManuallyRef THEN scheduleReconnect(a) ELSE a

close(m) ==
    [clearTimers([m EXCEPT !.closedManuallyRef = TRUE, !.wsRef = wsClose(@, FALSE)])
        EXCEPT !.status = "closing"]

\* select(topic): a property read, own or inherited; "absent" is no own property
select(m, topic) ==
    IF m.dataByTopic[topic] # "absent" THEN m.dataByTopic[topic]
    ELSE IF topic \in DOMAIN ObjectPrototype THEN ObjectPrototype[topic]
    ELSE "undefined"

\* The mount effect's body
mountEffect(m, throws) == connect([m EXCEPT !.closedManuallyRef = FALSE], throws)

----------------------------------------------------------------------------
\* The state machine

NoEvent ==
    [op |-> "other", cur |-> TRUE, forced |-> FALSE, armed |-> FALSE, recovered |-> FALSE]

Init ==
    /\ wsRef = NoSocket
    /\ superseded = EmptyBag
    /\ status = "idle"
    /\ dataByTopic = [t \in Keys |-> "absent"]
    /\ subscriptionsRef = <<>>
    /\ heartbeatTimerRef = NullRef
    /\ pongTimerRef = NullRef
    /\ reconnectTimerRef = NullRef
    /\ orphanTimers = EmptyBag
    /\ reconnectAttemptRef = 0
    /\ closedManuallyRef = FALSE
    /\ mounted = FALSE
    /\ urlThrows \in BOOLEAN
    /\ sent = <<>>
    /\ lastEvent = NoEvent
    /\ callSubs = {}
    /\ failedAttempts = 0
    /\ afterForced = FALSE
    /\ opened = FALSE
    /\ lastData = [t \in Keys |-> "absent"]

\* The handler's result becomes the next state.
Install(m) ==
    /\ m.ok
    /\ wsRef' = m.wsRef
    /\ superseded' = m.superseded
    /\ status' = m.status
    /\ dataByTopic' = m.dataByTopic
    /\ subscriptionsRef' = m.subscriptionsRef
    /\ heartbeatTimerRef' = m.heartbeatTimerRef
    /\ pongTimerRef' = m.pongTimerRef
    /\ reconnectTimerRef' = m.reconnectTimerRef
    /\ orphanTimers' = m.orphanTimers
    /\ reconnectAttemptRef' = m.reconnectAttemptRef
    /\ closedManuallyRef' = m.closedManuallyRef
    /\ sent' = m.sent

\* What the last handler was, as far as the properties below read it: the
\* handler, whether it ran for the socket installed, whether a pong deadline
\* had closed that socket, whether a pong deadline was pending, and whether
\* the open follows a forced close.
Observed == {"onopen", "onclose", "pong", "send", "deadline"}

Event(op, cur, w) ==
    IF op \in Observed
    THEN [op |-> op, cur |-> cur, forced |-> (op = "onclose" /\ w.forced),
          armed |-> (op = "pong" /\ pongTimerRef.state = "pending"),
          recovered |-> (op = "onopen" /\ afterForced)]
    ELSE NoEvent

\* A data frame: it parses, is not a pong and names a topic.
DataFrame(f) == ~f.malformed /\ f.type # "pong" /\ f.topic \in Keys

\* A failed attempt counts when the manual-close flag lets it be retried; cap
\* bounds the reconnect counter.
Failed(flag, cap) ==
    /\ failedAttempts' = IF flag THEN failedAttempts ELSE failedAttempts + 1
    /\ reconnectAttemptRef' <= cap

\* The mount effect runs for the first time.
Mount(cap) ==
    /\ ~mounted
    /\ mounted' = TRUE
    /\ Install(mountEffect(Cur, urlThrows))
    /\ Failed(~urlThrows, cap)
    /\ lastEvent' = Event("mount", TRUE, NoSocket)
    /\ UNCHANGED <<lastData, urlThrows, callSubs, afterForced, opened>>

\* The mount effect runs again (StrictMode, or a new url, for which the
\* constructor may throw): its cleanup, close(), and its body run back to back.
Remount(cap) ==
    /\ mounted
    /\ \E throws \in BOOLEAN :
        /\ Install(mountEffect(close(Cur), throws))
        /\ Failed(~throws, cap)
    /\ lastEvent' = Event("remount", TRUE, NoSocket)
    /\ afterForced' = FALSE
    /\ UNCHANGED <<lastData, mounted, urlThrows, callSubs, opened>>

\* close(), called by a component or as the cleanup of the last unmount
Close ==
    /\ Install(close(Cur))
    /\ lastEvent' = Event("close", TRUE, NoSocket)
    /\ UNCHANGED <<lastData, mounted, urlThrows, callSubs, failedAttempts, afterForced, opened>>

Subscribe ==
    \E t \in Topics :
        /\ Install(subscribe(Cur, t))
        /\ callSubs' = callSubs \cup {t}
        /\ lastEvent' = Event("subscribe", TRUE, NoSocket)
        /\ UNCHANGED <<lastData, mounted, urlThrows, failedAttempts, afterForced, opened>>

Unsubscribe ==
    \E t \in Topics :
        /\ Install(unsubscribe(Cur, t))
        /\ callSubs' = callSubs \ {t}
        /\ lastEvent' = Event("unsubscribe", TRUE, NoSocket)
        /\ UNCHANGED <<lastData, mounted, urlThrows, failedAttempts, afterForced, opened>>

\* send(msg), called by a component
Send ==
    /\ Install(sendRaw(Cur, [action |-> "user", topic |-> ""]))
    /\ lastEvent' = Event("send", TRUE, NoSocket)
    /\ UNCHANGED <<lastData, mounted, urlThrows, callSubs, failedAttempts, afterForced, opened>>

\* The open event of the socket installed
SockOpen ==
    /\ wsRef.rs = "CONNECTING"
    /\ Install(onopen([Cur EXCEPT !.wsRef.rs = "OPEN"]))
    /\ lastEvent' = Event("onopen", TRUE, wsRef)
    /\ failedAttempts' = 0
    /\ afterForced' = FALSE
    /\ opened' = TRUE
    /\ UNCHANGED <<lastData, mounted, urlThrows, callSubs>>

\* A message event of the socket installed
SockMessage(F) ==
    \E f \in F :
        /\ wsRef.rs = "OPEN"
        /\ Install(onmessage(Cur, f))
        /\ lastEvent' = Event(IF ~f.malformed /\ f.type = "pong" THEN "pong" ELSE "onmessage",
                              TRUE, wsRef)
        /\ lastData' = IF DataFrame(f) THEN [lastData EXCEPT ![f.topic] = f.payload]
                       ELSE lastData
        /\ UNCHANGED <<mounted, urlThrows, callSubs, failedAttempts, afterForced, opened>>

\* The socket installed is closed: its readyState becomes CLOSED, an error
\* event fires first when the connection failed, then the close event, in
\* one task.
SockClose(cap) ==
    \E failed \in BOOLEAN :
        /\ Alive(wsRef)
        /\ wsRef.rs = "CONNECTING" => failed
        /\ LET m == [Cur EXCEPT !.wsRef = [rs |-> "CLOSED", forced |-> FALSE]]
           IN  Install(onclose(IF failed THEN onerror(m) ELSE m))
        /\ lastEvent' = Event("onclose", TRUE, wsRef)
        /\ Failed(closedManuallyRef, cap)
        /\ afterForced' = (afterForced \/ wsRef.forced)
        /\ UNCHANGED <<lastData, mounted, urlThrows, callSubs, opened>>

\* The same three events of a socket that connect() has replaced
StaleOpen ==
    \E w \in BagToSet(superseded) :
        /\ w.rs = "CONNECTING"
        /\ Install(onopen([Cur EXCEPT !.superseded =
                              BagAdd(BagRemove(@, w), [w EXCEPT !.rs = "OPEN"])]))
        /\ lastEvent' = Event("onopen", FALSE, w)
        /\ failedAttempts' = 0
        /\ opened' = TRUE
        /\ UNCHANGED <<lastData, mounted, urlThrows, callSubs, afterForced>>

StaleMessage(F) ==
    \E w \in BagToSet(superseded), f \in F :
        /\ w.rs = "OPEN"
        /\ Install(onmessage(Cur, f))
        /\ lastEvent' = Event(IF ~f.malformed /\ f.type = "pong" THEN "pong" ELSE "onmessage",
                              FALSE, w)
        /\ lastData' = IF DataFrame(f) THEN [lastData EXCEPT ![f.topic] = f.payload]
                       ELSE lastData
        /\ UNCHANGED <<mounted, urlThrows, callSubs, failedAttempts, afterForced, opened>>

StaleClose(cap) ==
    \E w \in BagToSet(superseded), failed \in BOOLEAN :
        /\ w.rs = "CONNECTING" => failed
        /\ LET m == [Cur EXCEPT !.superseded = BagRemove(@, w)]
           IN  Install(onclose(IF failed THEN onerror(m) ELSE m))
        /\ lastEvent' = Event("onclose", FALSE, w)
        /\ Failed(closedManuallyRef, cap)
        /\ afterForced' = (afterForced \/ w.forced)
        /\ UNCHANGED <<lastData, mounted, urlThrows, callSubs, opened>>

\* The heartbeat interval fires.
HeartbeatTick ==
    /\ heartbeatTimerRef.state = "pending"
    /\ Install(heartbeatTick(Cur))
    /\ lastEvent' = Event("tick", TRUE, NoSocket)
    /\ UNCHANGED <<lastData, mounted, urlThrows, callSubs, failedAttempts, afterForced, opened>>

\* The pong deadline fires.
PongDeadline ==
    /\ pongTimerRef.state = "pending"
    /\ Install(pongDeadline([Cur EXCEPT !.pongTimerRef.state = "stale"]))
    /\ lastEvent' = Event("deadline", TRUE, NoSocket)
    /\ UNCHANGED <<lastData, mounted, urlThrows, callSubs, failedAttempts, afterForced, opened>>

\* The reconnect delay elapses: the timer calls the connect() of the first
\* render, which scheduleReconnect closed over.
ReconnectFire(cap) ==
    /\ reconnectTimerRef.state = "pending"
    /\ Install(connect([Cur EXCEPT !.reconnectTimerRef.state = "stale"], urlThrows))
    /\ Failed(~urlThrows \/ closedManuallyRef, cap)
    /\ lastEvent' = Event("reconnect", TRUE, NoSocket)
    /\ UNCHANGED <<lastData, mounted, urlThrows, callSubs, afterForced, opened>>

\* A pending timer that no ref holds fires; an interval stays pending.
OrphanTimerFire(cap) ==
    \E t \in BagToSet(orphanTimers) :
        /\ LET rest == [Cur EXCEPT !.orphanTimers = BagRemove(@, t)]
           IN  Install(CASE t.kind = "heartbeat" -> heartbeatTick(Cur)
                         [] t.kind = "pong" -> pongDeadline(rest)
                         [] t.kind = "reconnect" -> connect(rest, urlThrows))
        /\ Failed(t.kind # "reconnect" \/ ~urlThrows \/ closedManuallyRef, cap)
        /\ lastEvent' = Event(IF t.kind = "pong" THEN "deadline" ELSE "orphan", TRUE, NoSocket)
        /\ UNCHANGED <<lastData, mounted, urlThrows, callSubs, afterForced, opened>>

Next ==
    \/ Mount(MaxAttempt)
    \/ Remount(MaxAttempt)
    \/ Close
    \/ Subscribe
    \/ Unsubscribe
    \/ Send
    \/ SockOpen
    \/ SockMessage(CoreFrames)
    \/ SockClose(MaxAttempt)
    \/ StaleOpen
    \/ StaleMessage(CoreFrames)
    \/ StaleClose(MaxAttempt)
    \/ HeartbeatTick
    \/ PongDeadline
    \/ ReconnectFire(MaxAttempt)
    \/ OrphanTimerFire(MaxAttempt)

Spec == Init /\ [][Next]_vars

\* Consecutive failures of a manager that is mounted once, up to the cap of
\* the backoff
NextBackoff ==
    \/ Mount(MaxBackoffAttempt)
    \/ Close
    \/ SockOpen
    \/ SockClose(MaxBackoffAttempt)
    \/ HeartbeatTick
    \/ PongDeadline
    \/ ReconnectFire(MaxBackoffAttempt)

SpecBackoff == Init /\ [][NextBackoff]_vars

\* The lifecycle alone, with pending reconnect timers firing in the end: the
\* one the ref holds, and one that no ref holds any more
ReconnectOrphanFire ==
    /\ OrphanTimerFire(MaxAttempt)
    /\ [kind |-> "reconnect"] \in BagToSet(orphanTimers)
    /\ [kind |-> "reconnect"] \notin BagToSet(orphanTimers')

NextRetry ==
    \/ Mount(MaxAttempt)
    \/ Remount(MaxAttempt)
    \/ Close
    \/ SockOpen
    \/ SockClose(MaxAttempt)
    \/ StaleOpen
    \/ StaleClose(MaxAttempt)
    \/ HeartbeatTick
    \/ PongDeadline
    \/ ReconnectFire(MaxAttempt)
    \/ OrphanTimerFire(MaxAttempt)

SpecRetry ==
    /\ Init /\ [][NextRetry]_vars
    /\ WF_vars(ReconnectFire(MaxAttempt))
    /\ WF_vars(ReconnectOrphanFire)

----------------------------------------------------------------------------
\* What the properties read off a state

KindCount(kind) ==
    LET of == {t \in BagToSet(orphanTimers) : t.kind = kind}
    IN  IF of = {} THEN 0 ELSE BagCardinality([t \in of |-> orphanTimers[t]])

PendingCount(ref, kind) == (IF ref.state = "pending" THEN 1 ELSE 0) + KindCount(kind)

HeartbeatsPending == PendingCount(heartbeatTimerRef, "heartbeat")

PongsPending == PendingCount(pongTimerRef, "pong")

ReconnectsPending == PendingCount(reconnectTimerRef, "reconnect")

SocketsAlive == (IF Alive(wsRef) THEN 1 ELSE 0) + BagCardinality(superseded)

NoTimerPending == HeartbeatsPending = 0 /\ PongsPending = 0 /\ ReconnectsPending = 0

----------------------------------------------------------------------------
\* C1: after close(), while the mount effect has not run again, no step
\* schedules a reconnect and no step creates a socket.
C1_NoReconnectAfterClose ==
    [][closedManuallyRef /\ closedManuallyRef'
          => /\ ReconnectsPending' <= ReconnectsPending
             /\ SocketsAlive' <= SocketsAlive]_vars

\* C2: after close(), while the mount effect has not run again, none of the
\* three kinds of timer is pending.
C2_NoTimerAfterClose == closedManuallyRef => NoTimerPending

\* C3: after close(), while the mount effect has not run again, the status is
\* closing or closed and never connecting or open again, and it is closed once
\* nothing is left to happen (no socket alive, no timer pending).
C3_ClosedInTheEnd ==
    closedManuallyRef =>
        /\ status \in {"closing", "closed"}
        /\ SocketsAlive = 0 /\ NoTimerPending => status = "closed"

\* C4: a callback of a socket that connect() has replaced changes neither the
\* status, the timers, the reconnect counter nor the topic cache.
C4_StaleCallbackIgnored ==
    [][StaleOpen \/ StaleMessage(Frames) \/ StaleClose(MaxAttempt)
          => UNCHANGED <<status, heartbeatTimerRef, pongTimerRef, reconnectTimerRef,
                         orphanTimers, reconnectAttemptRef, dataByTopic>>]_vars

\* C5: the n-th reconnect scheduled after n consecutive failed attempts waits
\* 1000, 2000, 4000, 8000, 16000, 30000, 30000, ... ms, and an open event
\* leaves the reconnect counter at 0, so that the sequence starts again.
BackoffSequence == <<1000, 2000, 4000, 8000, 16000, 30000, 30000>>

NthDelay(n) == IF n <= Len(BackoffSequence) THEN BackoffSequence[n] ELSE 30000

C5_BackoffSequence ==
    /\ reconnectTimerRef.state = "pending" =>
          /\ failedAttempts >= 1
          /\ reconnectTimerRef.ms = NthDelay(failedAttempts)
    /\ lastEvent.op = "onopen" => reconnectAttemptRef = 0

C5_Witness ==
    /\ opened
    /\ failedAttempts = MaxBackoffAttempt
    /\ reconnectTimerRef = [state |-> "pending", ms |-> 30000]

\* C6: the open event of the socket installed sends, on that socket, exactly
\* one subscribe frame for every topic subscribed at that moment and none for
\* any other topic.
SubscribesSent(t) ==
    Cardinality({i \in 1..Len(sent) : sent[i] = [action |-> "subscribe", topic |-> t]})

C6_ReplayOnOpen ==
    lastEvent.op = "onopen" /\ lastEvent.cur =>
        \A t \in Topics : SubscribesSent(t) = IF t \in callSubs THEN 1 ELSE 0

C6_Witness ==
    /\ lastEvent.op = "onopen" /\ lastEvent.cur /\ lastEvent.recovered
    /\ callSubs = {"b"}
    /\ sent = <<[action |-> "subscribe", topic |-> "b"]>>
    /\ wsRef.rs = "OPEN"
    /\ ReconnectsPending = 0
    /\ SocketsAlive = 1

\* C7: the Subscription Set is the set that set-add and set-remove, applied in
\* the order of the subscribe and unsubscribe calls, give; no other handler
\* changes it.
C7_SubscriptionSet ==
    /\ Range(subscriptionsRef) = callSubs
    /\ Len(subscriptionsRef) = Cardinality(callSubs)

C7_Witness ==
    /\ callSubs = {"b"}
    /\ subscriptionsRef = <<"b">>
    /\ sent = <<[action |-> "unsubscribe", topic |-> "a"]>>

C9_PongCancelsOnly ==
    [][lastEvent'.op = "pong" /\ lastEvent'.armed
          => /\ pongTimerRef' = NullRef
             /\ PongsPending' = 0
             /\ UNCHANGED <<status, reconnectAttemptRef, subscriptionsRef, dataByTopic,
                            heartbeatTimerRef, reconnectTimerRef, orphanTimers, wsRef,
                            superseded, closedManuallyRef>>]_vars

C9_Witness ==
    /\ lastEvent.op = "pong" /\ lastEvent.armed
    /\ pongTimerRef = NullRef
    /\ status = "open"
    /\ heartbeatTimerRef.state = "pending"

\* C10, as claimed: send() fails before the first open and after a close, and
\* succeeds whenever the status is open.
C10_SendFollowsStatus ==
    lastEvent.op = "send" =>
        /\ ~opened \/ closedManuallyRef => sent = <<>>
        /\ status = "open" => sent # <<>>

\* C10, amended: send() succeeds exactly when the readyState of the socket
\* installed is OPEN; it fails before the first open event and while the
\* status is closing; between a pong deadline closing the socket and the close
\* event the status is open and send() fails.
C10_SendFollowsSocket ==
    lastEvent.op = "send" =>
        /\ sent # <<>> <=> wsRef.rs = "OPEN"
        /\ ~opened \/ status \in {"idle", "closing"} => sent = <<>>

C10_Witness ==
    /\ lastEvent.op = "send"
    /\ status = "open"
    /\ wsRef = [rs |-> "CLOSING", forced |-> TRUE]
    /\ sent = <<>>

\* C11: select(topic) is undefined for every topic no data frame was received
\* for, and otherwise the payload of the last data frame received for it.
C11_SelectLatest ==
    \A t \in Keys :
        select(Cur, t) = IF lastData[t] = "absent" THEN "undefined" ELSE lastData[t]

\* C12: a close() called when close() has been called before leaves status,
\* manual-close flag, timers, reconnect counter, Subscription Set and cache
\* as they were.
C12_RepeatedCloseNoOp ==
    [][closedManuallyRef /\ Close
          => UNCHANGED <<status, closedManuallyRef, heartbeatTimerRef, pongTimerRef,
                         reconnectTimerRef, orphanTimers, reconnectAttemptRef,
                         subscriptionsRef, dataByTopic>>]_vars

\* C13: at most one pong-deadline timer is pending in every reachable state.
C13_OnePongDeadline == PongsPending <= 1

C13_Witness ==
    /\ PongsPending = 1
    /\ HeartbeatsPending = 2
    /\ wsRef.rs = "OPEN"

\* C14: with the manual-close flag unset the manager never has neither a live
\* socket nor a pending reconnect, and when no socket is left a connection
\* attempt follows in the end: the status becomes connecting or, when the
\* constructor throws again, the reconnect counter grows; unless close() is
\* called first.  A constructor that throws with the counter at MaxAttempt is
\* where the model stops counting.
NotStuck == mounted /\ ~closedManuallyRef => SocketsAlive > 0 \/ ReconnectsPending > 0

C14_RetriedInTheEnd ==
    /\ []NotStuck
    /\ \A n \in 0..MaxAttempt :
          (/\ mounted /\ ~closedManuallyRef /\ SocketsAlive = 0
           /\ reconnectAttemptRef = n
           /\ urlThrows => n < MaxAttempt)
          ~> (status = "connecting" \/ closedManuallyRef \/ reconnectAttemptRef > n)

C14_Witness ==
    /\ lastEvent.op = "onclose" /\ lastEvent.forced
    /\ ~closedManuallyRef
    /\ SocketsAlive = 0
    /\ reconnectTimerRef.state = "pending"
    /\ reconnectAttemptRef = 1

\* C15: the error handler sets the status to error and changes nothing else;
\* the close event of a socket, with or without an error event before it,
\* increments the reconnect counter by one and arms one reconnect timer when
\* the manual-close flag is unset, and neither when it is set.
C15_ErrorThenClose ==
    [][SockClose(MaxAttempt) \/ StaleClose(MaxAttempt)
          => /\ onerror(Cur) = [Cur EXCEPT !.status = "error"]
             /\ status' = "closed"
             /\ IF closedManuallyRef
                THEN /\ reconnectAttemptRef' = reconnectAttemptRef
                     /\ ReconnectsPending' = ReconnectsPending
                ELSE /\ reconnectAttemptRef' = reconnectAttemptRef + 1
                     /\ ReconnectsPending' = ReconnectsPending + 1]_vars

C15_Witness ==
    /\ lastEvent.op = "onclose" /\ lastEvent.cur
    /\ ~opened /\ ~urlThrows /\ ~closedManuallyRef
    /\ wsRef.rs = "CLOSED"
    /\ status = "closed"
    /\ reconnectAttemptRef = 1
    /\ ReconnectsPending = 1

\* C16: a connect() in which the WebSocket constructor throws ends with status
\* error, with the next backoff delay armed and the counter incremented unless
\* the manual-close flag is set, with no heartbeat interval and no pong
\* deadline pending, and with Subscription Set and cache unchanged.
SyncFailure ==
    \/ Install(mountEffect(close(Cur), TRUE)) /\ Remount(MaxAttempt)
    \/ urlThrows /\ (Mount(MaxAttempt) \/ ReconnectFire(MaxAttempt) \/ ReconnectOrphanFire)

C16_SyncFailure ==
    [][SyncFailure
          => /\ status' = "error"
             /\ IF closedManuallyRef'
                THEN reconnectAttemptRef' = reconnectAttemptRef
                ELSE /\ reconnectAttemptRef' = reconnectAttemptRef + 1
                     /\ reconnectTimerRef' = newTimer(backoffDelay(reconnectAttemptRef'))
             /\ HeartbeatsPending' = 0
             /\ PongsPending' = 0
             /\ UNCHANGED <<subscriptionsRef, dataByTopic>>]_vars

\* C17: unsubscribe(topic) leaves the cache as it is, and the cache entry of a
\* topic is the payload of the last data frame received for it whether or not
\* the topic is subscribed.
C17_UnsubscribeKeepsCache ==
    [][/\ Unsubscribe => UNCHANGED dataByTopic
       /\ dataByTopic' = lastData']_vars

C17_Witness ==
    /\ sent = <<[action |-> "unsubscribe", topic |-> "a"]>>
    /\ "a" \notin callSubs
    /\ select(Cur, "a") = "p2"

\* C18: at most one socket the manager created is connecting, open or closing.
C18_OneSocketAlive == SocketsAlive <= 1

\* C19: at most one heartbeat interval is running, and it is the one
\* heartbeatTimerRef holds.
C19_OneHeartbeat == HeartbeatsPending <= 1 /\ KindCount("heartbeat") = 0

\* C20: at most one reconnect timer is pending, and it is the one
\* reconnectTimerRef holds.
C20_OneReconnect == ReconnectsPending <= 1 /\ KindCount("reconnect") = 0

====
